---------------------------- MODULE Spec2Model ----------------------------
(***************************************************************************)
(* Forecasting and classification engine of the socio-economic indicator   *)
(* pipeline: the recursive projection to 2030 and its status               *)
(* classification (src/src/forecast_to_2030.py), the dashboard's map       *)
(* category (src/dashboard.py) and the composite score and grade           *)
(* (src/src/projections.py).                                               *)
(*                                                                         *)
(* Numbers.  Indicator values are real numbers in the program.  Here a     *)
(* value is an integer counting halves of the indicator's unit, so the     *)
(* targets 5.0, 9.0 and 42.5 are the integers 10, 18 and 85.  A missing    *)
(* value (pandas NaN) is the integer NaN, outside every value range; every *)
(* ordered comparison with it is false, as for an IEEE NaN.  Quotients are *)
(* kept exact as a numerator and a denominator.  Global_Score is an        *)
(* integer counting hundredths.                                            *)
(***************************************************************************)
EXTENDS Integers, Sequences, FiniteSets, TLC

(***************************************************************************)
(* Bounds of the model                                                     *)
(***************************************************************************)
\* Inputs of a classifier: -NegVals..MaxVal halves for an indicator without
\* a numeric target, and the target - Span .. target + Span otherwise.
MaxVal == 26
NegVals == 2
Span == 4
\* Coefficients of a fitted model range over -MaxCoef..MaxCoef.
MaxCoef == 1

(***************************************************************************)
(* Configuration                                                           *)
(***************************************************************************)
NaN == -9999

numeric_cols ==
    << "Real_GDP_Per_Capita", "NEET_Rate", "Unemployment_Rate",
       "Income_Distribution_Ratio", "Income_Share_Bottom_40",
       "Renewable_Energy_Share", "GHG_Emissions" >>

Indicators == { numeric_cols[i] : i \in 1..Len(numeric_cols) }

\* 'value': None is has_value = FALSE (value is then unused).
targets_2030 ==
    [ c \in Indicators |->
        CASE c = "Real_GDP_Per_Capita" ->
               [has_value |-> FALSE, value |-> 0, goal |-> "higher_is_better"]
          [] c = "NEET_Rate" ->
               [has_value |-> TRUE, value |-> 18, goal |-> "lower_is_better"]
          [] c = "Unemployment_Rate" ->
               [has_value |-> TRUE, value |-> 10, goal |-> "lower_is_better"]
          [] c = "Income_Distribution_Ratio" ->
               [has_value |-> FALSE, value |-> 0, goal |-> "lower_is_better"]
          [] c = "Income_Share_Bottom_40" ->
               [has_value |-> FALSE, value |-> 0, goal |-> "higher_is_better"]
          [] c = "Renewable_Energy_Share" ->
               [has_value |-> TRUE, value |-> 85, goal |-> "higher_is_better"]
          [] OTHER ->
               [has_value |-> FALSE, value |-> 0, goal |-> "lower_is_better"] ]

(***************************************************************************)
(* Floating-point comparisons: false as soon as an operand is NaN          *)
(***************************************************************************)
IsNaN(x) == x = NaN

Lt(a, b) == ~IsNaN(a) /\ ~IsNaN(b) /\ a < b
Le(a, b) == ~IsNaN(a) /\ ~IsNaN(b) /\ a <= b
Gt(a, b) == ~IsNaN(a) /\ ~IsNaN(b) /\ a > b
Ge(a, b) == ~IsNaN(a) /\ ~IsNaN(b) /\ a >= b

(***************************************************************************)
(* A quotient  num / den * 100  as the float the program gets:             *)
(* kind "num" is the exact rational 100 * num / den (den # 0), the other   *)
(* kinds are the IEEE results of a division by zero or of a NaN operand.   *)
(***************************************************************************)
PctOf(num, den) == [kind |-> "num", num |-> 100 * num, den |-> den]
PctNaN == [kind |-> "nan", num |-> 0, den |-> 1]
PctInf == [kind |-> "inf", num |-> 0, den |-> 1]
PctNegInf == [kind |-> "neginf", num |-> 0, den |-> 1]
PctZero == [kind |-> "num", num |-> 0, den |-> 1]

\* p > k and p >= k for an integer k
PctGt(p, k) ==
    CASE p.kind = "nan" -> FALSE
      [] p.kind = "inf" -> TRUE
      [] p.kind = "neginf" -> FALSE
      [] OTHER -> IF p.den > 0 THEN p.num > k * p.den ELSE p.num < k * p.den

PctGe(p, k) ==
    CASE p.kind = "nan" -> FALSE
      [] p.kind = "inf" -> TRUE
      [] p.kind = "neginf" -> FALSE
      [] OTHER -> IF p.den > 0 THEN p.num >= k * p.den ELSE p.num <= k * p.den

(***************************************************************************)
(* Status classification of the forecast pipeline                          *)
(* (forecast_to_2030.py, the body of the loop over numeric_cols)           *)
(***************************************************************************)
\* is_met with the threshold itself excluded
is_met_Strict(target_info, forecast_value) ==
    \/ target_info.goal = "lower_is_better" /\ Lt(forecast_value, target_info.value)
    \/ target_info.goal = "higher_is_better" /\ Gt(forecast_value, target_info.value)

\* is_met: the forecast satisfies the threshold in the configured direction
is_met(target_info, forecast_value) ==
    \/ target_info.goal = "lower_is_better" /\ Le(forecast_value, target_info.value)
    \/ target_info.goal = "higher_is_better" /\ Ge(forecast_value, target_info.value)

\* is_improving with the two directions exchanged
is_improving_Flipped(target_info, forecast_value, last_value) ==
    \/ target_info.goal = "lower_is_better" /\ Gt(forecast_value, last_value)
    \/ target_info.goal = "higher_is_better" /\ Lt(forecast_value, last_value)

\* is_improving / is_good_trend: strictly better than the last observed value
is_improving(target_info, forecast_value, last_value) ==
    \/ target_info.goal = "lower_is_better" /\ Lt(forecast_value, last_value)
    \/ target_info.goal = "higher_is_better" /\ Gt(forecast_value, last_value)

\* growth_pct = ((forecast_value - last_value) / last_value) * 100, on a
\* numpy float64 numerator: a zero divisor gives inf, -inf or nan, no exception.
growth_pct(forecast_value, last_value) ==
    IF IsNaN(forecast_value) \/ IsNaN(last_value) THEN PctNaN
    ELSE IF last_value = 0
         THEN IF forecast_value > 0 THEN PctInf
              ELSE IF forecast_value < 0 THEN PctNegInf ELSE PctNaN
         ELSE PctOf(forecast_value - last_value, last_value)

\* GrowthStatus with 5% itself excluded from medium growth
GrowthStatus_Strict(g) ==
    IF PctGt(g, 10) THEN "Green"
    ELSE IF PctGt(g, 5) THEN "Orange"
    ELSE "Red"

\* The last branch written as 'elif growth_pct < 5' instead of 'else': a
\* growth that is not a number leaves the default status
GrowthStatus_NoElse(g) ==
    IF PctGt(g, 10) THEN "Green"
    ELSE IF PctGe(g, 5) THEN "Orange"
    ELSE IF g.kind = "nan" THEN "Error"
    ELSE "Red"

GrowthStatus(g) ==
    IF PctGt(g, 10) THEN "Green"
    ELSE IF PctGe(g, 5) THEN "Orange"
    ELSE "Red"

ClassifyStatus(col, last_value, forecast_value) ==
    LET target_info == targets_2030[col] IN
    IF target_info.has_value
    THEN IF is_met(target_info, forecast_value) THEN "Green"
         ELSE IF is_improving(target_info, forecast_value, last_value)
              THEN "Orange" ELSE "Red"
    ELSE IF col = "Real_GDP_Per_Capita"
         THEN GrowthStatus(growth_pct(forecast_value, last_value))
         ELSE IF is_improving(target_info, forecast_value, last_value)
              THEN "Green" ELSE "Red"

(***************************************************************************)
(* Map category of the dashboard (dashboard.py, get_status_category):      *)
(* 0 green, 1 orange, 2 red.  has_2022 says whether the data holds a 2022  *)
(* row for the country and indicator (last_value_series is not empty).     *)
(***************************************************************************)
TARGETS_2030 ==
    [ c \in Indicators |->
        CASE c = "Real_GDP_Per_Capita" ->
               [has_value |-> FALSE, value |-> 0, goal |-> "higher_is_better"]
          [] c = "NEET_Rate" ->
               [has_value |-> TRUE, value |-> 18, goal |-> "lower_is_better"]
          [] c = "Unemployment_Rate" ->
               [has_value |-> TRUE, value |-> 10, goal |-> "lower_is_better"]
          [] c = "Income_Distribution_Ratio" ->
               [has_value |-> FALSE, value |-> 0, goal |-> "lower_is_better"]
          [] c = "Income_Share_Bottom_40" ->
               [has_value |-> FALSE, value |-> 0, goal |-> "higher_is_better"]
          [] c = "Renewable_Energy_Share" ->
               [has_value |-> TRUE, value |-> 85, goal |-> "higher_is_better"]
          [] OTHER ->
               [has_value |-> FALSE, value |-> 0, goal |-> "lower_is_better"] ]

\* ((forecast_value - last_value) / last_value) * 100 if last_value != 0 else 0
dash_growth_pct(forecast_value, last_value) ==
    IF last_value # 0
    THEN IF IsNaN(forecast_value) \/ IsNaN(last_value) THEN PctNaN
         ELSE PctOf(forecast_value - last_value, last_value)
    ELSE PctZero

get_status_category(indicator, has_2022, last_value, forecast_value) ==
    LET target_info == TARGETS_2030[indicator]
        met ==
            \/ target_info.goal = "lower_is_better"
                 /\ Le(forecast_value, target_info.value)
            \/ target_info.goal = "higher_is_better"
                 /\ Ge(forecast_value, target_info.value)
        better ==
            \/ target_info.goal = "lower_is_better" /\ Lt(forecast_value, last_value)
            \/ target_info.goal = "higher_is_better" /\ Gt(forecast_value, last_value)
        g == dash_growth_pct(forecast_value, last_value)
    IN
    IF ~has_2022 THEN 1
    ELSE IF target_info.has_value
         THEN IF met THEN 0 ELSE IF better THEN 1 ELSE 2
         ELSE IF indicator = "Real_GDP_Per_Capita"
              THEN IF PctGt(g, 10) THEN 0 ELSE IF PctGe(g, 5) THEN 1 ELSE 2
              ELSE IF better THEN 0 ELSE 2

(***************************************************************************)
(* Recursive projection (forecast_to_2030.py, the loop over the countries) *)
(*                                                                         *)
(* A row of df_country or forecast_df is a function from column names to   *)
(* values: "Year", the seven indicators and their "_lag1" columns.         *)
(***************************************************************************)
AnchorYear == 2022
TargetYear == 2030

Lag1(c) == c \o "_lag1"

lagged_cols == [ i \in 1..Len(numeric_cols) |-> Lag1(numeric_cols[i]) ]

RowCols ==
    {"Year"} \cup Indicators \cup { lagged_cols[i] : i \in 1..Len(lagged_cols) }

\* feature_selection_map with Renewable_Energy_Share fed by the GDP of the
\* same year instead of its lag
feature_selection_map_SameYear ==
    [ c \in Indicators \ {"GHG_Emissions"} |->
        CASE c = "Real_GDP_Per_Capita" ->
               << "NEET_Rate_lag1", "Income_Distribution_Ratio_lag1" >>
          [] c = "NEET_Rate" ->
               << "Unemployment_Rate_lag1", "Income_Distribution_Ratio_lag1" >>
          [] c = "Unemployment_Rate" ->
               << "NEET_Rate_lag1", "Income_Distribution_Ratio_lag1" >>
          [] c = "Income_Distribution_Ratio" ->
               << "NEET_Rate_lag1", "Income_Share_Bottom_40_lag1" >>
          [] c = "Income_Share_Bottom_40" ->
               << "NEET_Rate_lag1", "Income_Distribution_Ratio_lag1" >>
          [] OTHER ->
               << "Real_GDP_Per_Capita" >> ]

feature_selection_map ==
    [ c \in Indicators \ {"GHG_Emissions"} |->
        CASE c = "Real_GDP_Per_Capita" ->
               << "NEET_Rate_lag1", "Income_Distribution_Ratio_lag1" >>
          [] c = "NEET_Rate" ->
               << "Unemployment_Rate_lag1", "Income_Distribution_Ratio_lag1" >>
          [] c = "Unemployment_Rate" ->
               << "NEET_Rate_lag1", "Income_Distribution_Ratio_lag1" >>
          [] c = "Income_Distribution_Ratio" ->
               << "NEET_Rate_lag1", "Income_Share_Bottom_40_lag1" >>
          [] c = "Income_Share_Bottom_40" ->
               << "NEET_Rate_lag1", "Income_Distribution_Ratio_lag1" >>
          [] OTHER ->
               << "Real_GDP_Per_Capita_lag1" >> ]

\* feature_cols of the model of col
feature_cols(col) ==
    IF col = "GHG_Emissions" THEN << "Year" >>
    ELSE << "Year" >> \o
         (IF col \in DOMAIN feature_selection_map
          THEN feature_selection_map[col] ELSE << >>)

\* The columns floored at zero in the projection loop
floor_cols ==
    { "NEET_Rate", "Unemployment_Rate", "Renewable_Energy_Share",
      "Income_Distribution_Ratio", "Income_Share_Bottom_40" }

(***************************************************************************)
(* A fitted LinearRegression is its intercept_ and coef_.  The fit itself  *)
(* (ordinary least squares on the training rows) is not computed: its      *)
(* result is an input, the line of slope year_coef through 0 at the anchor *)
(* year plus lag_coef times every lagged feature.                          *)
(***************************************************************************)
Coefs == -MaxCoef..MaxCoef

LinearModel(n_features, year_coef, lag_coef) ==
    [ intercept_ |-> 0 - year_coef * AnchorYear,
      coef_ |-> [ k \in 1..n_features |-> IF k = 1 THEN year_coef ELSE lag_coef ] ]

FitModels(year_coef, lag_coef) ==
    [ col \in Indicators |->
        [ model |-> LinearModel(Len(feature_cols(col)), year_coef, lag_coef),
          features |-> feature_cols(col) ] ]

RECURSIVE Dot(_, _, _)
Dot(coef, x, k) ==
    IF k > Len(coef) THEN 0 ELSE coef[k] * x[k] + Dot(coef, x, k + 1)

\* model.predict(input_features)[0]
predict(model, input_features) ==
    model.intercept_ + Dot(model.coef_, input_features, 1)

\* SliceFeatures taking the columns in the reverse order
SliceFeatures_Reversed(new_prediction, features) ==
    [ k \in 1..Len(features) |-> new_prediction[features[Len(features) + 1 - k]] ]

\* pd.DataFrame([new_prediction])[model_info['features']]
SliceFeatures(new_prediction, features) ==
    [ k \in 1..Len(features) |-> new_prediction[features[k]] ]

\* ApplyFloor without the constraint
ApplyFloor_None(col, predicted_value) == predicted_value

\* The floor applied to every indicator
ApplyFloor_All(col, predicted_value) ==
    IF predicted_value < 0 THEN 0 ELSE predicted_value

\* "A rate or share cannot be negative"
ApplyFloor(col, predicted_value) ==
    IF col \in floor_cols /\ predicted_value < 0 THEN 0 ELSE predicted_value

\* LagFields copying the previous record's lag fields instead of its values
LagFields_Stale(country_year, previous_year_data) ==
    [ f \in {"Year"} \cup { Lag1(c) : c \in Indicators } |->
        IF f = "Year" THEN country_year ELSE previous_year_data[f] ]

\* The first loop over numeric_cols: the lag fields of the new record
LagFields(country_year, previous_year_data) ==
    [ f \in {"Year"} \cup { Lag1(c) : c \in Indicators } |->
        IF f = "Year" THEN country_year
        ELSE LET c == CHOOSE c \in Indicators : Lag1(c) = f
             IN previous_year_data[c] ]

\* The second loop over numeric_cols, from column i on: predict, floor, store
RECURSIVE PredictCols(_, _, _)
PredictCols(mods, new_prediction, i) ==
    IF i > Len(numeric_cols) THEN new_prediction
    ELSE LET col == numeric_cols[i]
             model_info == mods[col]
             input_features == SliceFeatures(new_prediction, model_info.features)
             predicted_value == ApplyFloor(col, predict(model_info.model, input_features))
         IN PredictCols(mods, (col :> predicted_value) @@ new_prediction, i + 1)

\* forecast_df[forecast_df['Year'] == y].iloc[0]
RowOfYear(df, y) ==
    df[CHOOSE i \in 1..Len(df) :
         /\ df[i]["Year"] = y
         /\ \A j \in 1..(i - 1) : df[j]["Year"] # y]

\* range(2023, 2031) with its last year left out
forecast_years_Short ==
    [ k \in 1..(TargetYear - AnchorYear - 1) |-> AnchorYear + k ]

\* range(2023, 2031): the years of the projection loop, in its order
forecast_years ==
    [ k \in 1..(TargetYear - AnchorYear) |-> AnchorYear + k ]

\* The path started from the 2022 row moved one year back (its lag fields
\* taken as its values)
InitialPath_Shifted(anchor_row) ==
    << [ f \in DOMAIN anchor_row |->
           IF f \in Indicators THEN anchor_row[Lag1(f)] ELSE anchor_row[f] ] >>

\* forecast_df = pd.DataFrame([last_known_data])
InitialPath(anchor_row) == << anchor_row >>

\* A float with at most one decimal, as Python prints it: 18 halves is "9.0"
FormatValue(v) == ToString(v \div 2) \o "." \o ToString(5 * (v % 2))

\* The 'Target (2030)' text of a status record
TargetText(col) ==
    LET target_info == targets_2030[col] IN
    IF target_info.goal = "lower_is_better" /\ target_info.has_value
    THEN "<= " \o FormatValue(target_info.value)
    ELSE IF target_info.goal = "higher_is_better" /\ target_info.has_value
         THEN ">= " \o FormatValue(target_info.value)
         ELSE "Good Trend"

(***************************************************************************)
(* Classification, composite score and grade of projections.py             *)
(***************************************************************************)
\* goal is a number (has_goal) or the text 'growth' / 'reduction_vs_2005'
TARGETS ==
    [ c \in Indicators |->
        CASE c = "NEET_Rate" -> [has_goal |-> TRUE, goal |-> 18, direction |-> "down"]
          [] c = "Unemployment_Rate" -> [has_goal |-> TRUE, goal |-> 10, direction |-> "down"]
          [] c = "Real_GDP_Per_Capita" -> [has_goal |-> FALSE, goal |-> 0, direction |-> "up"]
          [] c = "Income_Distribution_Ratio" -> [has_goal |-> TRUE, goal |-> 8, direction |-> "down"]
          [] c = "Income_Share_Bottom_40" -> [has_goal |-> TRUE, goal |-> 48, direction |-> "up"]
          [] c = "Renewable_Energy_Share" -> [has_goal |-> TRUE, goal |-> 85, direction |-> "up"]
          [] OTHER -> [has_goal |-> FALSE, goal |-> 0, direction |-> "down"] ]

\* The reduction target reached only below 60% of the 2005 value
MeetsReduction_Strict(val_2030, val_2005) ==
    ~IsNaN(val_2030) /\ ~IsNaN(val_2005) /\ 10 * val_2030 < 6 * val_2005

\* val_2030 <= val_2005 * 0.60, exactly
MeetsReduction(val_2030, val_2005) ==
    ~IsNaN(val_2030) /\ ~IsNaN(val_2005) /\ 10 * val_2030 <= 6 * val_2005

\* get_status(row, indicator); has_2005 says whether df holds the country's
\* 2005 row (otherwise .values[0] raises and the except branch answers)
get_status(indicator, val_2030, val_latest, has_2005, val_2005) ==
    LET target == TARGETS[indicator] IN
    IF indicator = "Real_GDP_Per_Capita"
    THEN IF Gt(val_2030, val_latest) THEN "Green" ELSE "Red"
    ELSE IF indicator = "GHG_Emissions"
    THEN IF has_2005
         THEN IF MeetsReduction(val_2030, val_2005) THEN "Green"
              ELSE IF Lt(val_2030, val_latest) THEN "Orange" ELSE "Red"
         ELSE IF Lt(val_2030, val_latest) THEN "Orange" ELSE "Red"
    ELSE IF target.direction = "down"
    THEN IF Le(val_2030, target.goal) THEN "Green"
         ELSE IF Lt(val_2030, val_latest) THEN "Orange" ELSE "Red"
    ELSE IF Ge(val_2030, target.goal) THEN "Green"
         ELSE IF Gt(val_2030, val_latest) THEN "Orange" ELSE "Red"

score_map == [ st \in {"Green", "Orange", "Red"} |->
                 CASE st = "Green" -> 3 [] st = "Orange" -> 2 [] OTHER -> 1 ]

\* Round2 cutting the digits after the second decimal
Round2_Truncate(num, den) == (100 * num) \div den

\* round(num / den, 2) in hundredths, den > 0: the nearest hundredth; a tie
\* goes to the even one, as Python's round does
Round2(num, den) ==
    LET q == (100 * num) \div den
        r == (100 * num) % den
    IN IF 2 * r > den THEN q + 1
       ELSE IF 2 * r < den THEN q
       ELSE IF q % 2 = 0 THEN q ELSE q + 1

RECURSIVE SumScores(_, _, _)
SumScores(row, cols, k) ==
    IF k > Len(cols) THEN 0
    ELSE score_map[row[cols[k]]] + SumScores(row, cols, k + 1)

\* get_grade with exclusive lower bounds
get_grade_Exclusive(score) ==
    IF score > 250 THEN "On Track (Green)"
    ELSE IF score > 180 THEN "Progressing (Orange)"
    ELSE "Off Track (Red)"

\* The thresholds 2.5 and 1.8 of get_grade, in hundredths
get_grade(score) ==
    IF score >= 250 THEN "On Track (Green)"
    ELSE IF score >= 180 THEN "Progressing (Orange)"
    ELSE "Off Track (Red)"

(***************************************************************************)
(* State                                                                   *)
(***************************************************************************)
VARIABLES
    pc,               \* the step the script is at
    models,           \* forecast_to_2030: col -> {'model', 'features'}
    last_known_data,  \* forecast_to_2030: the country's 2022 row
    forecast_df,      \* forecast_to_2030: the Forecast Path, a sequence of rows
    all_forecasts,    \* forecast_to_2030: the status records appended so far
    cand,             \* a classifier's inputs: col, last_value, forecast_value, has_2022
    status,           \* the pipeline's status of cand ('Error' until set)
    category,         \* the dashboard's category of cand (<< >> until computed)
    proj_status,      \* projections: get_status of cand, and the 2005 value it read
    status_cols,      \* projections: the 'Status_' columns of df_proj
    df_proj,          \* projections: one row of df_proj, column name -> value
    script,           \* the script that runs
    file,             \* data/Final_Cleaned_Database.csv: whether it exists, its rows
    df,               \* the table read by pd.read_csv
    countries,        \* df['Country'].unique()
    country_pos,      \* the position of the country loop in countries
    df_country,       \* the frame of the country at hand
    train_data,       \* forecast_to_2030: df_country.dropna()
    processed,        \* what the loop has kept of each country it finished
    raised,           \* the exception that ended the script, and where
    stdout,           \* the messages printed
    created,          \* the directories and files created
    exit_status,      \* the exit status of the script, -1 while it runs
    graph_data,       \* dashboard: the (Country, Indicator) pairs of the table df
    sdg_value,        \* dashboard: 'sdg-dropdown'.value
    indicator_options,\* dashboard: 'map-indicator-dropdown'.options
    indicator_value,  \* dashboard: 'map-indicator-dropdown'.value
    clickData,        \* dashboard: 'europe-map'.clickData, the location clicked
    country_value,    \* dashboard: 'country-dropdown'.value
    map_width,        \* dashboard: 'map-column'.width
    graph_style,      \* dashboard: 'graph-column'.style['display']
    map_figure,       \* dashboard: 'europe-map'.figure
    map_legend,       \* dashboard: 'map-legend'.children
    graph_figure,     \* dashboard: 'indicator-graphs'.figure
    pending,          \* dashboard: the callbacks triggered and not yet run
    triggered         \* dashboard: the inputs that triggered update_graphs

vars == << pc, models, last_known_data, forecast_df, all_forecasts,
           cand, status, category, proj_status, status_cols, df_proj,
           script, file, df, countries, country_pos, df_country, train_data,
           processed, raised, stdout, created, exit_status,
           graph_data, sdg_value, indicator_options, indicator_value,
           clickData, country_value, map_width, graph_style, map_figure,
           map_legend, graph_figure, pending, triggered >>

forecastVars == << models, last_known_data, forecast_df, all_forecasts >>
classVars == << cand, status, category, proj_status >>
scoreVars == << status_cols, df_proj >>
runVars == << script, file, df, countries, country_pos, df_country, train_data,
              processed, raised, stdout, created, exit_status >>
dashVars == << graph_data, sdg_value, indicator_options, indicator_value,
               clickData, country_value, map_width, graph_style, map_figure,
               map_legend, graph_figure, pending, triggered >>

NoCand == [col |-> "GHG_Emissions", last_value |-> NaN, forecast_value |-> NaN,
           has_2022 |-> FALSE]

ForecastIdle ==
    /\ models = << >>
    /\ last_known_data = << >>
    /\ forecast_df = << >>
    /\ all_forecasts = << >>

NoProj == [status |-> "", has_2005 |-> FALSE, val_2005 |-> NaN]

ClassIdle ==
    /\ proj_status = NoProj
    /\ cand = NoCand
    /\ status = "Error"
    /\ category = << >>

ScoreIdle ==
    /\ status_cols = << >>
    /\ df_proj = << >>

NoError == [exc |-> "", at |-> ""]

RunIdle ==
    /\ script = ""
    /\ file = [exists |-> FALSE, rows |-> << >>]
    /\ df = << >>
    /\ countries = << >>
    /\ country_pos = 0
    /\ df_country = << >>
    /\ train_data = << >>
    /\ processed = << >>
    /\ raised = NoError
    /\ stdout = << >>
    /\ created = {}
    /\ exit_status = -1

\* None, for a property that holds a string or nothing
None == "None"

NoFigure == [kind |-> "", country |-> None, indicator |-> None]

DashIdle ==
    /\ graph_data = {}
    /\ sdg_value = None
    /\ indicator_options = {}
    /\ indicator_value = None
    /\ clickData = None
    /\ country_value = None
    /\ map_width = 0
    /\ graph_style = ""
    /\ map_figure = NoFigure
    /\ map_legend = << >>
    /\ graph_figure = NoFigure
    /\ pending = {}
    /\ triggered = {}

(***************************************************************************)
(* The forecast pipeline for one country: the 2022 row and the fitted      *)
(* models are the inputs; one step per projected year, then one step per   *)
(* classified indicator.                                                   *)
(***************************************************************************)
\* Values of the 2022 row, and of the row before it (NaN: no such value)
AnchorVals == {0, 3}

AnchorRow(anchor, prev) ==
    [ f \in RowCols |->
        IF f = "Year" THEN AnchorYear
        ELSE IF f \in Indicators THEN anchor[f]
        ELSE prev ]

Init ==
    /\ pc = "project"
    /\ \E year_coef \in Coefs, lag_coef \in Coefs :
          models = FitModels(year_coef, lag_coef)
    /\ \E anchor \in [Indicators -> AnchorVals], prev \in AnchorVals \cup {NaN} :
          last_known_data = AnchorRow(anchor, prev)
    /\ forecast_df = InitialPath(last_known_data)
    /\ all_forecasts = << >>
    /\ ClassIdle
    /\ ScoreIdle
    /\ RunIdle
    /\ DashIdle

\* One pass of "for year in range(2023, 2031)"
ProjectYear ==
    /\ pc = "project"
    /\ Len(forecast_df) <= Len(forecast_years)
    /\ LET year == forecast_years[Len(forecast_df)]
           previous_year_data == RowOfYear(forecast_df, year - 1)
           new_prediction ==
               PredictCols(models, LagFields(year, previous_year_data), 1)
       IN /\ forecast_df' = Append(forecast_df, new_prediction)
          /\ pc' = IF Len(forecast_df) = Len(forecast_years)
                   THEN "classify" ELSE "project"
    /\ UNCHANGED << models, last_known_data, all_forecasts >>
    /\ UNCHANGED << classVars, scoreVars, runVars, dashVars >>

\* One pass of the loop over numeric_cols that appends to all_forecasts
ClassifyIndicator ==
    /\ pc = "classify"
    /\ LET col == numeric_cols[Len(all_forecasts) + 1]
           prediction_2030 == RowOfYear(forecast_df, TargetYear)
           last_value == last_known_data[col]
           forecast_value == prediction_2030[col]
       IN all_forecasts' = Append(all_forecasts,
              [ Indicator |-> col,
                last_value |-> last_value,
                forecast_value |-> forecast_value,
                Target |-> TargetText(col),
                Status |-> ClassifyStatus(col, last_value, forecast_value) ])
    /\ pc' = IF Len(all_forecasts) + 1 = Len(numeric_cols) THEN "done" ELSE "classify"
    /\ UNCHANGED << models, last_known_data, forecast_df >>
    /\ UNCHANGED << classVars, scoreVars, runVars, dashVars >>

Next == ProjectYear \/ ClassifyIndicator

Spec == Init /\ [][Next]_vars

(***************************************************************************)
(* The two classifiers as functions of their inputs: a candidate           *)
(* (indicator, last observed value, 2030 forecast) is drawn, the pipeline  *)
(* classifies it, then the dashboard maps it to a category, with or        *)
(* without a 2022 row in its data.                                         *)
(***************************************************************************)
ValRange(col) ==
    IF targets_2030[col].has_value
    THEN (targets_2030[col].value - Span)..(targets_2030[col].value + Span)
    ELSE (0 - NegVals)..MaxVal

InputVals(col) == ValRange(col) \cup {NaN}

InitClassify ==
    /\ pc = "candidate"
    /\ \E col \in Indicators :
         \E last_value \in InputVals(col), forecast_value \in InputVals(col) :
            cand = [col |-> col, last_value |-> last_value,
                    forecast_value |-> forecast_value, has_2022 |-> TRUE]
    /\ status = "Error"
    /\ category = << >>
    /\ proj_status = NoProj
    /\ ForecastIdle
    /\ ScoreIdle
    /\ RunIdle
    /\ DashIdle

ClassifyCandidate ==
    /\ pc = "candidate"
    /\ status' = ClassifyStatus(cand.col, cand.last_value, cand.forecast_value)
    /\ pc' = "classified"
    /\ UNCHANGED << cand, category, proj_status >>
    /\ UNCHANGED << forecastVars, scoreVars, runVars, dashVars >>

MapCategory ==
    /\ pc = "classified"
    /\ \E has_2022 \in BOOLEAN :
         /\ cand' = [cand EXCEPT !.has_2022 = has_2022]
         /\ category' = << get_status_category(cand.col, has_2022,
                                               cand.last_value, cand.forecast_value) >>
    /\ pc' = "mapped"
    /\ UNCHANGED << status, proj_status >>
    /\ UNCHANGED << forecastVars, scoreVars, runVars, dashVars >>

\* projections.py, get_status applied to the same indicator, latest value
\* and 2030 value; for GHG_Emissions the country's 2005 row may be there or
\* not, and its value may be missing
ProjGetStatus ==
    /\ pc = "classified"
    /\ \E has_2005 \in BOOLEAN :
         \E val_2005 \in IF has_2005 /\ cand.col = "GHG_Emissions"
                         THEN InputVals(cand.col) ELSE {NaN} :
            proj_status' =
                [ status |-> get_status(cand.col, cand.forecast_value,
                                        cand.last_value, has_2005, val_2005),
                  has_2005 |-> has_2005,
                  val_2005 |-> val_2005 ]
    /\ pc' = "projected"
    /\ UNCHANGED << cand, status, category >>
    /\ UNCHANGED << forecastVars, scoreVars, runVars, dashVars >>

NextClassify == ClassifyCandidate \/ MapCategory \/ ProjGetStatus

SpecClassify == InitClassify /\ [][NextClassify]_vars

(***************************************************************************)
(* Composite score and grade (projections.py, section 6) of one row of     *)
(* df_proj, whose status columns hold what get_status can return.          *)
(***************************************************************************)
StatusCol(c) == "Status_" \o c

ProjValRange(c) ==
    IF TARGETS[c].has_goal
    THEN (TARGETS[c].goal - Span)..(TARGETS[c].goal + Span)
    ELSE (0 - NegVals)..MaxVal

StatusRange ==
    [ c \in Indicators |->
        { get_status(c, val_2030, val_latest, has_2005, val_2005) :
            val_2030 \in ProjValRange(c) \cup {NaN},
            val_latest \in ProjValRange(c) \cup {NaN},
            has_2005 \in BOOLEAN,
            val_2005 \in IF c = "GHG_Emissions" THEN ProjValRange(c) \cup {NaN} ELSE {NaN} } ]

\* The columns of numeric_cols that are in S, in the order of numeric_cols
RECURSIVE ColsIn(_, _)
ColsIn(S, k) ==
    IF k > Len(numeric_cols) THEN << >>
    ELSE (IF numeric_cols[k] \in S THEN << StatusCol(numeric_cols[k]) >> ELSE << >>)
         \o ColsIn(S, k + 1)

InitScore ==
    /\ pc = "score"
    /\ \E S \in SUBSET Indicators :
         /\ status_cols = ColsIn(S, 1)
         /\ \E st \in [S -> {"Green", "Orange", "Red"}] :
              /\ \A c \in S : st[c] \in StatusRange[c]
              /\ df_proj = [ k \in { StatusCol(c) : c \in S } |->
                               st[CHOOSE c \in S : StatusCol(c) = k] ]
    /\ ForecastIdle
    /\ ClassIdle
    /\ RunIdle
    /\ DashIdle

\* calculate_score(row), len(scores) > 0
calculate_score(row, cols) ==
    Round2(SumScores(row, cols, 1), Len(cols))

\* df_proj['Global_Score'] = df_proj.apply(calculate_score, axis=1)
ApplyCalculateScore ==
    /\ pc = "score"
    /\ IF Len(status_cols) = 0
       THEN \* sum([]) / len([]) raises ZeroDivisionError: the script stops
            /\ pc' = "crashed"
            /\ UNCHANGED df_proj
       ELSE /\ df_proj' = ("Global_Score" :> calculate_score(df_proj, status_cols)) @@ df_proj
            /\ pc' = "grade"
    /\ UNCHANGED status_cols
    /\ UNCHANGED << forecastVars, classVars, runVars, dashVars >>

\* df_proj['Final_Grade'] = df_proj['Global_Score'].apply(get_grade)
ApplyGetGrade ==
    /\ pc = "grade"
    /\ df_proj' = ("Final_Grade" :> get_grade(df_proj["Global_Score"])) @@ df_proj
    /\ pc' = "saved"
    /\ UNCHANGED status_cols
    /\ UNCHANGED << forecastVars, classVars, runVars, dashVars >>

NextScore == ApplyCalculateScore \/ ApplyGetGrade

SpecScore == InitScore /\ [][NextScore]_vars

(***************************************************************************)
(* get_grade as a function of its input: every score from 1.00 to 3.00,    *)
(* the least and the greatest value of score_map, in hundredths.           *)
(***************************************************************************)
ScoreValues == (100 * score_map["Red"])..(100 * score_map["Green"])

InitGrade ==
    /\ pc = "grade"
    /\ status_cols = << >>
    /\ \E score \in ScoreValues : df_proj = ("Global_Score" :> score)
    /\ ForecastIdle
    /\ ClassIdle
    /\ RunIdle
    /\ DashIdle

NextGrade == ApplyGetGrade

SpecGrade == InitGrade /\ [][NextGrade]_vars

(***************************************************************************)
(* The scripts run on the data file: loading, the country loop up to the   *)
(* fitted models and the last observed values, and saving.  A fitted       *)
(* LinearRegression is identified by the training data it was fit on; the  *)
(* projection and the classification that follow from the models and the   *)
(* 2022 row are those of Spec.                                             *)
(***************************************************************************)
MaxRows == 4

Scripts == {"forecast_to_2030", "projections", "descriptive_analysis"}

Countries == {"A", "B"}

Years == {2021, 2022, 2023}

\* The columns a file may miss a value in: a lag feature of other models, a
\* feature of no model, the target of the year-only model
MissCols == {"NEET_Rate", "Renewable_Energy_Share", "GHG_Emissions"}

NoCell == << 0, "" >>

\* The value a file holds for a country and a year, the same in every column
ObservedValue(country, year) ==
    (year - 2020) + (IF country = "A" THEN 0 ELSE 5)

CsvRow(country, year, missing) ==
    [ f \in {"Country", "Year"} \cup Indicators |->
        IF f = "Country" THEN country
        ELSE IF f = "Year" THEN year
        ELSE IF f = missing THEN NaN
        ELSE ObservedValue(country, year) ]

\* The files: up to max_rows rows of distinct (country, year), in any order,
\* with at most one missing value
KeySeqs(n) ==
    { s \in [1..n -> Countries \X Years] :
        \A i \in 1..n, j \in 1..n : i # j => s[i] # s[j] }

Tables(max_rows) ==
    UNION { { [ i \in 1..n |->
                CsvRow(s[i][1], s[i][2], IF cell[1] = i THEN cell[2] ELSE "") ]
              : s \in KeySeqs(n), cell \in {NoCell} \cup ((1..n) \X MissCols) }
            : n \in 1..max_rows }

Files(max_rows) ==
    { [exists |-> FALSE, rows |-> << >>] }
      \cup { [exists |-> TRUE, rows |-> t] : t \in Tables(max_rows) }

file_path == "data/Final_Cleaned_Database.csv"

\* df[df['Country'] == country] with the whole table kept
CountryRows_All(table, country) == table

\* df[df['Country'] == country]
CountryRows(table, country) ==
    SelectSeq(table, LAMBDA r : r["Country"] = country)

\* df['Country'].unique(): the countries in the order of first appearance
RECURSIVE unique(_)
unique(table) ==
    IF table = << >> THEN << >>
    ELSE LET front == unique(SubSeq(table, 1, Len(table) - 1))
             last == table[Len(table)]["Country"]
         IN IF \E k \in 1..Len(front) : front[k] = last
            THEN front ELSE Append(front, last)

\* frame[lagged_cols] = frame[numeric_cols].shift(1): each row gets the
\* values of the row above it, the first row gets NaN
shift_1(frame) ==
    [ i \in 1..Len(frame) |->
        [ f \in DOMAIN frame[i] \cup { Lag1(c) : c \in Indicators } |->
            IF f \in DOMAIN frame[i] THEN frame[i][f]
            ELSE IF i = 1 THEN NaN
            ELSE frame[i - 1][CHOOSE c \in Indicators : Lag1(c) = f] ] ]

\* model_validation.py: df.groupby('Country')[numeric_cols].shift(1), each
\* row gets the values of the row of its country that is nearest above it
group_shift_1(table) ==
    [ i \in 1..Len(table) |->
        LET above == { j \in 1..(i - 1) : table[j]["Country"] = table[i]["Country"] }
        IN [ f \in DOMAIN table[i] \cup { Lag1(c) : c \in Indicators } |->
               IF f \in DOMAIN table[i] THEN table[i][f]
               ELSE IF above = {} THEN NaN
               ELSE table[CHOOSE j \in above : \A k \in above : k <= j]
                         [CHOOSE c \in Indicators : Lag1(c) = f] ] ]

\* frame.dropna(): the rows with no missing value in any column
dropna(frame) ==
    SelectSeq(frame, LAMBDA r : \A f \in DOMAIN r \ {"Country"} : r[f] # NaN)

\* frame[cols] and frame[col]
Columns(frame, cols) ==
    [ i \in 1..Len(frame) |-> [ k \in 1..Len(cols) |-> frame[i][cols[k]] ] ]

Column(frame, col) == [ i \in 1..Len(frame) |-> frame[i][col] ]

\* The frame X_train and y_train of col are taken from
TrainingFrame(col, country_frame, train_frame) ==
    IF col = "GHG_Emissions" THEN country_frame ELSE train_frame

X_train(col, country_frame, train_frame) ==
    Columns(TrainingFrame(col, country_frame, train_frame), feature_cols(col))

y_train(col, country_frame, train_frame) ==
    Column(TrainingFrame(col, country_frame, train_frame), col)

\* LinearRegression().fit(X, y) raises ValueError on an empty sample and on
\* a missing value in X or y; it fits any other sample, one with fewer rows
\* than coefficients included
FitRaises(X, y) ==
    \/ Len(y) = 0
    \/ \E i \in 1..Len(y) : y[i] = NaN
    \/ \E i \in 1..Len(X) : \E k \in 1..Len(X[i]) : X[i][k] = NaN

\* The fitted model, a function of the sample it was fit on
fit(X, y) == [X_train |-> X, y_train |-> y]

\* The position in numeric_cols of the first fit that raises, 0 if none does
FirstRaising(country_frame, train_frame) ==
    LET bad == { k \in 1..Len(numeric_cols) :
                   FitRaises(X_train(numeric_cols[k], country_frame, train_frame),
                             y_train(numeric_cols[k], country_frame, train_frame)) }
    IN IF bad = {} THEN 0 ELSE CHOOSE k \in bad : \A j \in bad : k <= j

\* models after the fits of the first n columns
FittedModels(n, country_frame, train_frame) ==
    [ col \in { numeric_cols[k] : k \in 1..n } |->
        [ model |-> fit(X_train(col, country_frame, train_frame),
                        y_train(col, country_frame, train_frame)),
          features |-> feature_cols(col) ] ]

\* The columns whose lag-1 field some model reads
LagFeatureCols ==
    { c \in Indicators :
        \E col \in Indicators : \E k \in 1..Len(feature_cols(col)) :
            feature_cols(col)[k] = Lag1(c) }

\* projections.py: the year-only sample of col, 2020 left out
ProjTrain(country_frame) ==
    SelectSeq(country_frame, LAMBDA r : r["Year"] # 2020)

\* projections.py: country_result, the model standing for its 2030 prediction
country_result(country, country_frame) ==
    [ Country |-> country,
      Latest |-> [ col \in Indicators |-> country_frame[Len(country_frame)][col] ],
      Model |-> [ col \in Indicators |->
                    fit(Columns(ProjTrain(country_frame), << "Year" >>),
                        Column(ProjTrain(country_frame), col)) ] ]

InitRun ==
    /\ pc = "start"
    /\ file \in Files(MaxRows)
    /\ script \in Scripts
    /\ script = "descriptive_analysis" => Len(file.rows) <= 1
    /\ df = << >>
    /\ countries = << >>
    /\ country_pos = 0
    /\ df_country = << >>
    /\ train_data = << >>
    /\ processed = << >>
    /\ raised = NoError
    /\ stdout = << >>
    /\ created = {}
    /\ exit_status = -1
    /\ ForecastIdle
    /\ ClassIdle
    /\ ScoreIdle
    /\ DashIdle

\* print(...); exit(): the status of exit() without an argument is 0
ExitAfter(message) ==
    /\ stdout' = Append(stdout, message)
    /\ exit_status' = 0
    /\ pc' = "exited"
    /\ UNCHANGED raised

\* An uncaught exception: the traceback, and the status 1
Raise(exc, at) ==
    /\ raised' = [exc |-> exc, at |-> at]
    /\ exit_status' = 1
    /\ pc' = "exited"
    /\ UNCHANGED stdout

\* forecast_to_2030.py, lines 21-27 and 52-57
ForecastLoad ==
    /\ script = "forecast_to_2030"
    /\ pc = "start"
    /\ IF ~file.exists
       THEN /\ ExitAfter("Error: File not found at " \o file_path)
            /\ UNCHANGED << df, countries, country_pos, created >>
       ELSE /\ df' = file.rows
            /\ stdout' = Append(stdout, "Data loaded successfully.")
            /\ countries' = unique(file.rows)
            /\ country_pos' = 1
            /\ created' = created \cup {"results/forecast_2030/trend_graphs"}
            /\ pc' = "country"
            /\ UNCHANGED << raised, exit_status >>
    /\ UNCHANGED << script, file, df_country, train_data, processed >>
    /\ UNCHANGED << forecastVars, classVars, scoreVars, dashVars >>

\* The lag columns assigned to the loaded table, as
\* model_validation.py:38 does, and not to a copy
ForecastCountry_InPlace ==
    /\ script = "forecast_to_2030"
    /\ pc = "country"
    /\ country_pos <= Len(countries)
    /\ df' = shift_1(df)
    /\ df_country' = CountryRows(df', countries[country_pos])
    /\ train_data' = dropna(df_country')
    /\ models' = << >>
    /\ pc' = "fit"
    /\ UNCHANGED << script, file, countries, country_pos, processed,
                    raised, stdout, created, exit_status >>
    /\ UNCHANGED << last_known_data, forecast_df, all_forecasts >>
    /\ UNCHANGED << classVars, scoreVars, dashVars >>

\* forecast_to_2030.py, lines 60-76: the country's rows are copied, the copy
\* gets the lag columns, train_data is the copy without its incomplete rows
ForecastCountry ==
    /\ script = "forecast_to_2030"
    /\ pc = "country"
    /\ country_pos <= Len(countries)
    /\ df_country' = shift_1(CountryRows(df, countries[country_pos]))
    /\ train_data' = dropna(df_country')
    /\ models' = << >>
    /\ pc' = "fit"
    /\ UNCHANGED << script, file, df, countries, country_pos, processed,
                    raised, stdout, created, exit_status >>
    /\ UNCHANGED << last_known_data, forecast_df, all_forecasts >>
    /\ UNCHANGED << classVars, scoreVars, dashVars >>

\* forecast_to_2030.py, lines 78-92: the seven fits in the order of
\* numeric_cols; the first one that raises ends the script
ForecastFit ==
    /\ script = "forecast_to_2030"
    /\ pc = "fit"
    /\ LET k == FirstRaising(df_country, train_data)
       IN IF k = 0
          THEN /\ models' = FittedModels(Len(numeric_cols), df_country, train_data)
               /\ pc' = "anchor"
               /\ UNCHANGED << raised, stdout, exit_status >>
          ELSE /\ models' = FittedModels(k - 1, df_country, train_data)
               /\ Raise("ValueError", "fit")
    /\ UNCHANGED << script, file, df, countries, country_pos, df_country,
                    train_data, processed, created >>
    /\ UNCHANGED << last_known_data, forecast_df, all_forecasts >>
    /\ UNCHANGED << classVars, scoreVars, dashVars >>

\* forecast_to_2030.py, lines 94-216: the 2022 row is looked up (IndexError
\* when the country has none), the projection reads its lag features from
\* it (predict raises ValueError on a missing one), and the loop moves on
ForecastProject ==
    /\ script = "forecast_to_2030"
    /\ pc = "anchor"
    /\ LET rows_2022 == SelectSeq(df_country, LAMBDA r : r["Year"] = AnchorYear)
       IN IF rows_2022 = << >>
          THEN /\ Raise("IndexError", "last_known_data")
               /\ UNCHANGED << last_known_data, processed, country_pos >>
          ELSE /\ last_known_data' = rows_2022[1]
               /\ IF \E c \in LagFeatureCols : rows_2022[1][c] = NaN
                  THEN /\ Raise("ValueError", "predict")
                       /\ UNCHANGED << processed, country_pos >>
                  ELSE /\ processed' =
                            Append(processed,
                                   [ Country |-> countries[country_pos],
                                     models |-> models,
                                     last_known_data |-> rows_2022[1] ])
                       /\ country_pos' = country_pos + 1
                       /\ pc' = "country"
                       /\ UNCHANGED << raised, stdout, exit_status >>
    /\ UNCHANGED << script, file, df, countries, df_country, train_data, created >>
    /\ UNCHANGED << models, forecast_df, all_forecasts >>
    /\ UNCHANGED << classVars, scoreVars, dashVars >>

\* forecast_to_2030.py, lines 219-235
ForecastSave ==
    /\ script = "forecast_to_2030"
    /\ pc = "country"
    /\ country_pos > Len(countries)
    /\ created' = created \cup {"results/forecast_2030/forecast_2030_values.csv",
                                "results/forecast_2030/forecast_2030_status.csv"}
    /\ ExitAfter("Results saved in 'results/forecast_2030'")
    /\ UNCHANGED << script, file, df, countries, country_pos, df_country,
                    train_data, processed >>
    /\ UNCHANGED << forecastVars, classVars, scoreVars, dashVars >>

\* projections.py, lines 17-21
ProjMakeDirs ==
    /\ script = "projections"
    /\ pc = "start"
    /\ created' = created \cup {"results"}
    /\ stdout' = Append(stdout, "Output directory ready: results")
    /\ pc' = "load"
    /\ UNCHANGED << script, file, df, countries, country_pos, df_country,
                    train_data, processed, raised, exit_status >>
    /\ UNCHANGED << forecastVars, classVars, scoreVars, dashVars >>

\* projections.py, lines 46-54
ProjLoad ==
    /\ script = "projections"
    /\ pc = "load"
    /\ IF ~file.exists
       THEN /\ ExitAfter("Error: File not found at " \o file_path)
            /\ UNCHANGED << df, countries, country_pos >>
       ELSE /\ df' = file.rows
            /\ stdout' = Append(stdout, "Data loaded successfully.")
            /\ countries' = unique(file.rows)
            /\ country_pos' = 1
            /\ pc' = "country"
            /\ UNCHANGED << raised, exit_status >>
    /\ UNCHANGED << script, file, df_country, train_data, processed, created >>
    /\ UNCHANGED << forecastVars, classVars, scoreVars, dashVars >>

\* projections.py, lines 62-89: the country's rows are selected and read, a
\* year-only model is fit for each column and the last row's value is kept
ProjCountry ==
    /\ script = "projections"
    /\ pc = "country"
    /\ country_pos <= Len(countries)
    /\ df_country' = CountryRows(df, countries[country_pos])
    /\ IF \E col \in Indicators :
            FitRaises(Columns(ProjTrain(df_country'), << "Year" >>),
                      Column(ProjTrain(df_country'), col))
       THEN /\ Raise("ValueError", "fit")
            /\ UNCHANGED << processed, country_pos >>
       ELSE /\ processed' =
                 Append(processed,
                        country_result(countries[country_pos], df_country'))
            /\ country_pos' = country_pos + 1
            /\ UNCHANGED << pc, raised, stdout, exit_status >>
    /\ UNCHANGED << script, file, df, countries, train_data, created >>
    /\ UNCHANGED << forecastVars, classVars, scoreVars, dashVars >>

\* projections.py, lines 91-162
ProjSave ==
    /\ script = "projections"
    /\ pc = "country"
    /\ country_pos > Len(countries)
    /\ created' = created \cup {"results/final_projections_2030.csv"}
    /\ ExitAfter("Final results saved to: 'results/final_projections_2030.csv'")
    /\ UNCHANGED << script, file, df, countries, country_pos, df_country,
                    train_data, processed >>
    /\ UNCHANGED << forecastVars, classVars, scoreVars, dashVars >>

\* descriptive_analysis.py, lines 15-21: the handler prints and the script
\* goes on, df bound only if the file was read
DescLoad ==
    /\ script = "descriptive_analysis"
    /\ pc = "start"
    /\ IF file.exists
       THEN /\ df' = file.rows
            /\ stdout' = Append(stdout, "Data loaded successfully.")
       ELSE /\ stdout' = Append(stdout, "Error: File not found at "
                                          \o "data/Final_cleaned_database.csv")
            /\ UNCHANGED df
    /\ pc' = "makedirs"
    /\ UNCHANGED << script, file, countries, country_pos, df_country,
                    train_data, processed, raised, created, exit_status >>
    /\ UNCHANGED << forecastVars, classVars, scoreVars, dashVars >>

\* descriptive_analysis.py, lines 23-24
DescMakeDirs ==
    /\ script = "descriptive_analysis"
    /\ pc = "makedirs"
    /\ created' = created \cup {"results/descriptive_analysis_plot"}
    /\ pc' = "analyse"
    /\ UNCHANGED << script, file, df, countries, country_pos, df_country,
                    train_data, processed, raised, stdout, exit_status >>
    /\ UNCHANGED << forecastVars, classVars, scoreVars, dashVars >>

\* descriptive_analysis.py, line 27 on: df.columns is a NameError when the
\* file was not read; the statistics and plots are not modelled
DescAnalyse ==
    /\ script = "descriptive_analysis"
    /\ pc = "analyse"
    /\ IF ~file.exists
       THEN Raise("NameError", "numeric_cols")
       ELSE /\ exit_status' = 0
            /\ pc' = "exited"
            /\ UNCHANGED << raised, stdout >>
    /\ UNCHANGED << script, file, df, countries, country_pos, df_country,
                    train_data, processed, created >>
    /\ UNCHANGED << forecastVars, classVars, scoreVars, dashVars >>

NextRun ==
    \/ ForecastLoad
    \/ ForecastCountry
    \/ ForecastFit
    \/ ForecastProject
    \/ ForecastSave
    \/ ProjMakeDirs
    \/ ProjLoad
    \/ ProjCountry
    \/ ProjSave
    \/ DescLoad
    \/ DescMakeDirs
    \/ DescAnalyse

SpecRun == InitRun /\ [][NextRun]_vars

(***************************************************************************)
(* The dashboard (dashboard.py): the properties of the page's components,  *)
(* the events of the user and the callbacks they trigger.  The table df    *)
(* (graph_forecast_data.csv) is reduced to the (Country, Indicator) pairs  *)
(* it has rows for.  A user event adds the callbacks that depend on the    *)
(* changed property to pending; the server runs them one at a time, in any *)
(* order.  The user acts on the page once the callbacks of the previous    *)
(* event have returned.                                                    *)
(***************************************************************************)
\* The indicators a country may have rows for
IndicatorSets ==
    { Indicators,
      Indicators \ {"GHG_Emissions"},
      {} }

GraphTables ==
    { UNION { { << c, i >> : i \in f[c] } : c \in Countries } :
        f \in [Countries -> IndicatorSets] }

\* countries = df['Country'].unique()
dash_countries(data) == { p[1] : p \in data }

\* indicators = df['Indicator'].unique()
dash_indicators(data) == { p[2] : p \in data }

SDG8 == "SDG 8: Decent Work and Economic Growth"
SDG10 == "SDG 10: Reduced Inequalities"
SDG13 == "SDG 13: Climate Action"
SDGs == {SDG8, SDG10, SDG13}

indicator_groups(data) ==
    [ sdg \in SDGs |->
        (CASE sdg = SDG8 -> {"Real_GDP_Per_Capita", "Unemployment_Rate", "NEET_Rate"}
           [] sdg = SDG10 -> {"Income_Distribution_Ratio", "Income_Share_Bottom_40"}
           [] OTHER -> {"GHG_Emissions", "Renewable_Energy_Share"})
        \cap dash_indicators(data) ]

\* The graph shown whenever a country was clicked, whatever the indicator
toggle_graph_view_ClickOnly(click, selected_indicator) ==
    IF click # None
    THEN [width |-> 7, display |-> "block"]
    ELSE [width |-> 12, display |-> "none"]

toggle_graph_view(click, selected_indicator) ==
    IF selected_indicator = None
    THEN [width |-> 12, display |-> "none"]
    ELSE IF click # None
    THEN [width |-> 7, display |-> "block"]
    ELSE [width |-> 12, display |-> "none"]

set_indicator_options(selected_sdg, data) ==
    IF selected_sdg = None THEN {}
    ELSE LET available_indicators == indicator_groups(data)[selected_sdg]
         IN IF available_indicators = {}
            THEN { [value |-> "", disabled |-> TRUE] }
            ELSE { [value |-> indicator, disabled |-> FALSE] :
                     indicator \in available_indicators }

\* A dropdown that keeps its value when the new options lack it
DropdownValue_Keep(value, options) == value

\* dcc.Dropdown: when the options change and the value is not among them,
\* the component sets its value to None
DropdownValue(value, options) ==
    IF value # None /\ value \notin { o.value : o \in options }
    THEN None ELSE value

update_map(selected_indicator, data) ==
    IF selected_indicator = None
    THEN [kind |-> "blank", country |-> None, indicator |-> None]
    ELSE IF selected_indicator \notin dash_indicators(data)
    THEN [kind |-> "no_forecast", country |-> None, indicator |-> selected_indicator]
    ELSE [kind |-> "choropleth", country |-> None, indicator |-> selected_indicator]

\* The locations of the choropleth: df_2030['Country']
Locations(figure, data) ==
    IF figure.kind = "choropleth"
    THEN { c \in dash_countries(data) : << c, figure.indicator >> \in data }
    ELSE {}

\* The colours of the legend items
update_legend(selected_indicator) ==
    IF selected_indicator = None THEN << >>
    ELSE IF TARGETS_2030[selected_indicator].has_value
    THEN << "green", "orange", "red" >>
    ELSE IF selected_indicator = "Real_GDP_Per_Capita"
    THEN << "green", "orange", "red" >>
    ELSE << "green", "red" >>

\* The country taken from the map click whatever triggered the callback
selected_country_ClickOnly(trigger_id, dropdown_value, click) ==
    IF click # None THEN click ELSE dropdown_value

\* update_graphs: the country of the graph; trigger_id is None when
\* ctx.triggered is empty
selected_country(trigger_id, dropdown_value, click) ==
    IF trigger_id = None THEN dropdown_value
    ELSE IF trigger_id = "europe-map" /\ click # None THEN click
    ELSE dropdown_value

update_graphs(trigger_id, dropdown_value, click, selected_indicator, data) ==
    LET country == selected_country(trigger_id, dropdown_value, click)
    IN IF country = None \/ selected_indicator = None
       THEN [kind |-> "prompt", country |-> None, indicator |-> None]
       ELSE IF << country, selected_indicator >> \notin data
       THEN [kind |-> "no_data", country |-> country, indicator |-> selected_indicator]
       ELSE [kind |-> "trend", country |-> country, indicator |-> selected_indicator]

\* The callbacks that have 'map-indicator-dropdown'.value as an input
IndicatorCallbacks ==
    {"toggle_graph_view", "update_map", "update_legend", "update_graphs"}

\* The callbacks that have 'europe-map'.clickData as an input
ClickCallbacks ==
    {"toggle_graph_view", "update_dropdown_from_map", "update_graphs"}

\* The page as laid out, before the initial calls of the callbacks
\* (update_dropdown_from_map has prevent_initial_call)
InitDash ==
    /\ pc = "serving"
    /\ graph_data \in GraphTables
    /\ sdg_value = None
    /\ indicator_options = {}
    /\ indicator_value = None
    /\ clickData = None
    /\ country_value = None
    /\ map_width = 12
    /\ graph_style = "none"
    /\ map_figure = NoFigure
    /\ map_legend = << >>
    /\ graph_figure = NoFigure
    /\ pending = IndicatorCallbacks \cup {"set_indicator_options"}
    /\ triggered = {}
    /\ ForecastIdle
    /\ ClassIdle
    /\ ScoreIdle
    /\ RunIdle

dashFrame == << pc, graph_data, forecastVars, classVars, scoreVars, runVars >>

\* The user picks an SDG in 'sdg-dropdown'
SelectSDG ==
    /\ pending = {}
    /\ \E sdg \in SDGs :
         /\ sdg # sdg_value
         /\ sdg_value' = sdg
    /\ pending' = {"set_indicator_options"}
    /\ UNCHANGED << indicator_options, indicator_value, clickData, country_value,
                    map_width, graph_style, map_figure, map_legend,
                    graph_figure, triggered >>
    /\ UNCHANGED dashFrame

\* The user clears 'sdg-dropdown'
ClearSDG ==
    /\ pending = {}
    /\ sdg_value # None
    /\ sdg_value' = None
    /\ pending' = {"set_indicator_options"}
    /\ UNCHANGED << indicator_options, indicator_value, clickData, country_value,
                    map_width, graph_style, map_figure, map_legend,
                    graph_figure, triggered >>
    /\ UNCHANGED dashFrame

\* The user picks one of the options of 'map-indicator-dropdown'
SelectIndicator ==
    /\ pending = {}
    /\ \E o \in indicator_options :
         /\ ~o.disabled
         /\ o.value # indicator_value
         /\ indicator_value' = o.value
    /\ pending' = IndicatorCallbacks
    /\ triggered' = {"map-indicator-dropdown"}
    /\ UNCHANGED << sdg_value, indicator_options, clickData, country_value,
                    map_width, graph_style, map_figure, map_legend,
                    graph_figure >>
    /\ UNCHANGED dashFrame

\* The user clears 'map-indicator-dropdown'
ClearIndicator ==
    /\ pending = {}
    /\ indicator_value # None
    /\ indicator_value' = None
    /\ pending' = IndicatorCallbacks
    /\ triggered' = {"map-indicator-dropdown"}
    /\ UNCHANGED << sdg_value, indicator_options, clickData, country_value,
                    map_width, graph_style, map_figure, map_legend,
                    graph_figure >>
    /\ UNCHANGED dashFrame

\* The user clicks a country of the choropleth
MapClick ==
    /\ pending = {}
    /\ \E location \in Locations(map_figure, graph_data) :
         clickData' = location
    /\ pending' = ClickCallbacks
    /\ triggered' = {"europe-map"}
    /\ UNCHANGED << sdg_value, indicator_options, indicator_value, country_value,
                    map_width, graph_style, map_figure, map_legend,
                    graph_figure >>
    /\ UNCHANGED dashFrame

\* The user picks a country in 'country-dropdown', which lies in the graph
\* column
SelectCountry ==
    /\ pending = {}
    /\ graph_style = "block"
    /\ \E country \in dash_countries(graph_data) :
         /\ country # country_value
         /\ country_value' = country
    /\ pending' = {"update_graphs"}
    /\ triggered' = {"country-dropdown"}
    /\ UNCHANGED << sdg_value, indicator_options, indicator_value, clickData,
                    map_width, graph_style, map_figure, map_legend,
                    graph_figure >>
    /\ UNCHANGED dashFrame

\* The user clears 'country-dropdown'
ClearCountry ==
    /\ pending = {}
    /\ graph_style = "block"
    /\ country_value # None
    /\ country_value' = None
    /\ pending' = {"update_graphs"}
    /\ triggered' = {"country-dropdown"}
    /\ UNCHANGED << sdg_value, indicator_options, indicator_value, clickData,
                    map_width, graph_style, map_figure, map_legend,
                    graph_figure >>
    /\ UNCHANGED dashFrame

ToggleGraphView ==
    /\ "toggle_graph_view" \in pending
    /\ LET out == toggle_graph_view(clickData, indicator_value)
       IN /\ map_width' = out.width
          /\ graph_style' = out.display
    /\ pending' = pending \ {"toggle_graph_view"}
    /\ UNCHANGED << sdg_value, indicator_options, indicator_value, clickData,
                    country_value, map_figure, map_legend, graph_figure,
                    triggered >>
    /\ UNCHANGED dashFrame

\* set_indicator_options, and the dropdown receiving the new options
SetIndicatorOptions ==
    /\ "set_indicator_options" \in pending
    /\ indicator_options' = set_indicator_options(sdg_value, graph_data)
    /\ indicator_value' = DropdownValue(indicator_value, indicator_options')
    /\ IF indicator_value' # indicator_value
       THEN /\ pending' = (pending \ {"set_indicator_options"})
                              \cup IndicatorCallbacks
            /\ triggered' = triggered \cup {"map-indicator-dropdown"}
       ELSE /\ pending' = pending \ {"set_indicator_options"}
            /\ UNCHANGED triggered
    /\ UNCHANGED << sdg_value, clickData, country_value, map_width, graph_style,
                    map_figure, map_legend, graph_figure >>
    /\ UNCHANGED dashFrame

UpdateMap ==
    /\ "update_map" \in pending
    /\ map_figure' = update_map(indicator_value, graph_data)
    /\ pending' = pending \ {"update_map"}
    /\ UNCHANGED << sdg_value, indicator_options, indicator_value, clickData,
                    country_value, map_width, graph_style, map_legend,
                    graph_figure, triggered >>
    /\ UNCHANGED dashFrame

UpdateLegend ==
    /\ "update_legend" \in pending
    /\ map_legend' = update_legend(indicator_value)
    /\ pending' = pending \ {"update_legend"}
    /\ UNCHANGED << sdg_value, indicator_options, indicator_value, clickData,
                    country_value, map_width, graph_style, map_figure,
                    graph_figure, triggered >>
    /\ UNCHANGED dashFrame

\* update_dropdown_from_map; the value it writes is an input of update_graphs
UpdateDropdownFromMap ==
    /\ "update_dropdown_from_map" \in pending
    /\ IF clickData = None
       THEN /\ pending' = pending \ {"update_dropdown_from_map"}
            /\ UNCHANGED << country_value, triggered >>
       ELSE /\ country_value' = clickData
            /\ pending' = (pending \ {"update_dropdown_from_map"})
                              \cup {"update_graphs"}
            /\ triggered' = triggered \cup {"country-dropdown"}
    /\ UNCHANGED << sdg_value, indicator_options, indicator_value, clickData,
                    map_width, graph_style, map_figure, map_legend,
                    graph_figure >>
    /\ UNCHANGED dashFrame

\* update_graphs; ctx.triggered_id is one of the inputs that triggered it
UpdateGraphs ==
    /\ "update_graphs" \in pending
    /\ \E trigger_id \in IF triggered = {} THEN {None} ELSE triggered :
         graph_figure' = update_graphs(trigger_id, country_value, clickData,
                                       indicator_value, graph_data)
    /\ pending' = pending \ {"update_graphs"}
    /\ triggered' = {}
    /\ UNCHANGED << sdg_value, indicator_options, indicator_value, clickData,
                    country_value, map_width, graph_style, map_figure,
                    map_legend >>
    /\ UNCHANGED dashFrame

NextDash ==
    \/ SelectSDG
    \/ ClearSDG
    \/ SelectIndicator
    \/ ClearIndicator
    \/ MapClick
    \/ SelectCountry
    \/ ClearCountry
    \/ ToggleGraphView
    \/ SetIndicatorOptions
    \/ UpdateMap
    \/ UpdateLegend
    \/ UpdateDropdownFromMap
    \/ UpdateGraphs

SpecDash == InitDash /\ [][NextDash]_vars

\* The server runs every callback that was triggered
SpecDashFair ==
    /\ SpecDash
    /\ WF_vars(ToggleGraphView)
    /\ WF_vars(SetIndicatorOptions)
    /\ WF_vars(UpdateMap)
    /\ WF_vars(UpdateLegend)
    /\ WF_vars(UpdateDropdownFromMap)
    /\ WF_vars(UpdateGraphs)

(***************************************************************************)
(* Properties                                                              *)
(***************************************************************************)
Abs(x) == IF x < 0 THEN 0 - x ELSE x

\* What the fitted model of col predicts for the record at index i of the
\* path, before the floor
RawPrediction(col, i) ==
    predict(models[col].model, SliceFeatures(forecast_df[i], models[col].features))

\* C1 (causality): in the Forecast Path, the lag-1 field of every indicator in
\* the record of a year Y after the anchor year equals the indicator's
\* current value in the record of year Y-1.
C1_Causality ==
    \A i \in 1..Len(forecast_df), j \in 1..Len(forecast_df) :
        (forecast_df[i]["Year"] > AnchorYear
           /\ forecast_df[j]["Year"] = forecast_df[i]["Year"] - 1)
        => \A c \in Indicators : forecast_df[i][Lag1(c)] = forecast_df[j][c]

\* C1's case: a negative prediction was floored to 0 in one year and that 0
\* is the lag value of the next year's record.
C1_Witness ==
    \E i \in 2..(Len(forecast_df) - 1) : \E c \in floor_cols :
        /\ RawPrediction(c, i) < 0
        /\ forecast_df[i][c] = 0
        /\ forecast_df[i + 1][Lag1(c)] = 0
        /\ \E d \in Indicators : forecast_df[i][d] # forecast_df[i][Lag1(d)]

\* C2 (floor): no forecast record holds a negative value for a bounded-below
\* indicator (the rate and share indicators, and the ratio the code floors
\* with them).
C2_Floor ==
    \A i \in 2..Len(forecast_df) :
        \A c \in { "NEET_Rate", "Unemployment_Rate", "Renewable_Energy_Share",
                   "Income_Share_Bottom_40", "Income_Distribution_Ratio" } :
            forecast_df[i][c] >= 0

\* C2's case: the model predicted a negative rate and the record holds 0.
C2_Witness ==
    \E i \in 2..Len(forecast_df) :
        /\ RawPrediction("NEET_Rate", i) < 0
        /\ forecast_df[i]["NEET_Rate"] = 0
        /\ RawPrediction("Real_GDP_Per_Capita", i) < 0
        /\ forecast_df[i]["Real_GDP_Per_Capita"] < 0

Classified == pc \in {"classified", "mapped"}

Numeric(x) == x # NaN

\* C3: for an indicator with a numeric target the status is Green when the
\* forecast satisfies the target (<= for lower_is_better, >= for
\* higher_is_better), otherwise Orange when the forecast is strictly better
\* than the last observed value, otherwise Red.
C3_FixedTarget ==
    (Classified /\ targets_2030[cand.col].has_value
       /\ Numeric(cand.last_value) /\ Numeric(cand.forecast_value))
    => LET lower == targets_2030[cand.col].goal = "lower_is_better"
           target == targets_2030[cand.col].value
           f == cand.forecast_value
           l == cand.last_value
           met == IF lower THEN f <= target ELSE f >= target
           better == IF lower THEN f < l ELSE f > l
       IN status = IF met THEN "Green" ELSE IF better THEN "Orange" ELSE "Red"

\* C3's case: Unemployment_Rate 7.0 in 2022 and 6.0 in 2030 misses the
\* target 5.0 and improves.
C3_Witness ==
    /\ pc = "classified"
    /\ cand.col = "Unemployment_Rate"
    /\ cand.last_value = 14
    /\ cand.forecast_value = 12
    /\ status = "Orange"

\* The status of a percentage change 100 * (f - l) / l, l # 0
GrowthClass(l, f) ==
    LET n == 100 * (f - l) IN
    IF l > 0
    THEN IF n > 10 * l THEN "Green" ELSE IF n >= 5 * l THEN "Orange" ELSE "Red"
    ELSE IF n < 10 * l THEN "Green" ELSE IF n <= 5 * l THEN "Orange" ELSE "Red"

\* C4: for Real_GDP_Per_Capita with a nonzero last observed value, a change
\* above 10% is Green, a change from 5% to 10% (both included) is Orange and
\* a change below 5% is Red, in the pipeline's status and in the dashboard's
\* category.
C4_Growth ==
    (Classified /\ cand.col = "Real_GDP_Per_Capita"
       /\ Numeric(cand.last_value) /\ Numeric(cand.forecast_value)
       /\ cand.last_value # 0)
    => /\ status = GrowthClass(cand.last_value, cand.forecast_value)
       /\ (pc = "mapped" /\ cand.has_2022)
          => category = << CASE status = "Green" -> 0 [] status = "Orange" -> 1 [] OTHER -> 2 >>

\* C4's case: a growth of 4% (12.5 -> 13.0) is Red in both classifiers.
C4_Witness ==
    /\ pc = "mapped"
    /\ cand.has_2022
    /\ cand.col = "Real_GDP_Per_Capita"
    /\ cand.last_value = 25
    /\ cand.forecast_value = 26
    /\ status = "Red"
    /\ category = << 2 >>

\* C5: when the last observed Real_GDP_Per_Capita is exactly zero the status
\* is Red (growth taken as 0%) for any forecast value.
C5_ZeroLastValue ==
    (Classified /\ cand.col = "Real_GDP_Per_Capita" /\ cand.last_value = 0)
    => /\ status = "Red"
       /\ (pc = "mapped" /\ cand.has_2022) => category = << 2 >>

TrendOnly == { "Income_Distribution_Ratio", "Income_Share_Bottom_40", "GHG_Emissions" }

\* C6: for a trend-only indicator neither classifier emits the
\* Improving/Neutral (Orange) label, whatever the last observed and forecast
\* values, a missing last observed value included.
C6_TwoState ==
    (cand.col \in TrendOnly)
    => /\ Classified => status \in {"Green", "Red"}
       /\ pc = "mapped" => category \in { << 0 >>, << 2 >> }

Rank(st) == CASE st = "Green" -> 3 [] st = "Orange" -> 2 [] OTHER -> 1

\* C7: for a lower-is-better indicator and a fixed last observed value, a
\* smaller forecast never has a worse status than a greater one.
C7_Monotone ==
    (Classified /\ targets_2030[cand.col].goal = "lower_is_better"
       /\ Numeric(cand.forecast_value))
    => \A B \in ValRange(cand.col) :
          cand.forecast_value < B
          => Rank(status) >= Rank(ClassifyStatus(cand.col, cand.last_value, B))

\* C7's case: the smaller forecast is strictly better than a greater one.
C7_Witness ==
    /\ Classified
    /\ cand.col = "NEET_Rate"
    /\ Numeric(cand.last_value)
    /\ status = "Orange"
    /\ \E B \in ValRange(cand.col) :
          /\ cand.forecast_value < B
          /\ ClassifyStatus(cand.col, cand.last_value, B) = "Red"

Scored == pc \in {"grade", "saved"}

CountOf(st) == Cardinality({ k \in 1..Len(status_cols) : df_proj[status_cols[k]] = st })

\* C8: Global_Score is the mean of the scores Green 3, Orange 2, Red 1 of
\* the row's statuses, rounded to the nearest hundredth, from 1.00 to 3.00.
C8_GlobalScore ==
    Scored
    => LET n == Len(status_cols)
           total == 3 * CountOf("Green") + 2 * CountOf("Orange") + CountOf("Red")
           score == df_proj["Global_Score"]
       IN /\ 2 * Abs(100 * total - n * score) <= n
          /\ score >= 100
          /\ score <= 300

\* C8's case: seven statuses whose mean 13/7 rounds up to 1.86.
C8_Witness ==
    /\ pc = "grade"
    /\ Len(status_cols) = 7
    /\ CountOf("Green") = 2
    /\ CountOf("Orange") = 2
    /\ df_proj["Global_Score"] = 186

\* C9: get_grade gives every score from 1.00 to 3.00 exactly one grade:
\* On Track from 2.5 on, Progressing from 1.8 on and below 2.5, Off Track
\* below 1.8.
C9_Grade ==
    pc = "saved"
    => LET score == df_proj["Global_Score"]
           grade == df_proj["Final_Grade"]
       IN /\ grade \in {"On Track (Green)", "Progressing (Orange)", "Off Track (Red)"}
          /\ grade = "On Track (Green)" <=> score >= 250
          /\ grade = "Progressing (Orange)" <=> (score >= 180 /\ score < 250)
          /\ grade = "Off Track (Red)" <=> score < 180

\* C9's case: the score 1.80, the inclusive lower bound of Progressing.
C9_Witness ==
    /\ pc = "saved"
    /\ df_proj["Global_Score"] = 180
    /\ df_proj["Final_Grade"] = "Progressing (Orange)"

\* C10: with no status column the scorer does not divide by zero: it
\* reports that no score is available.
C10_NoScoreAvailable ==
    (Len(status_cols) = 0 /\ pc # "score") => pc = "no_score"

C14_AnchorRecord ==
    /\ Len(forecast_df) >= 1
    /\ forecast_df[1] = last_known_data
    /\ forecast_df[1]["Year"] = AnchorYear

\* C14's case: eight steps have been appended behind an anchor whose values
\* differ from those of the year before it, and a later record differs from
\* the anchor.
C14_Witness ==
    /\ Len(forecast_df) = 9
    /\ forecast_df[1] = last_known_data
    /\ \E c \in Indicators :
          /\ last_known_data[c] # last_known_data[Lag1(c)]
          /\ forecast_df[2][c] # last_known_data[c]

\* The indicator a lag-1 column belongs to
IndicatorOf ==
    [ f \in { Lag1(c) : c \in Indicators } |->
        CHOOSE c \in Indicators : Lag1(c) = f ]

\* The fields of the record of year Y that come from the record of Y-1, with
\* every same-year indicator value set to something else than the path holds
AlteredSameYear(i) ==
    [ f \in RowCols |->
        IF f = "Year" THEN forecast_df[i]["Year"]
        ELSE IF f \in Indicators THEN forecast_df[i][f] + 1
        ELSE forecast_df[i - 1][IndicatorOf[f]] ]

\* C16: the value predicted for year Y is a function of Y and the record of
\* Y-1 alone: whatever the other indicators' values of year Y are, and so
\* whatever the order the seven are predicted in, the prediction is the same.
C16_OrderIndependent ==
    \A i \in 2..Len(forecast_df) :
        LET altered == AlteredSameYear(i)
        IN \A c \in Indicators :
              forecast_df[i][c] =
                  ApplyFloor(c, predict(models[c]["model"],
                                        SliceFeatures(altered, models[c]["features"])))

\* C16's case: a year whose GDP differs from the GDP of the year before, and
\* a Renewable_Energy_Share model that weighs its GDP feature.
C16_Witness ==
    \E i \in 2..Len(forecast_df) :
        /\ forecast_df[i]["Real_GDP_Per_Capita"]
              # forecast_df[i]["Real_GDP_Per_Capita_lag1"]
        /\ models["Renewable_Energy_Share"]["model"]["coef_"][2] # 0
        /\ forecast_df[i]["Renewable_Energy_Share"] > 0

\* The feature lists of lines 41-48 and 78-84, written out
StoredFeatures(c) ==
    CASE c = "Real_GDP_Per_Capita" ->
           << "Year", "NEET_Rate_lag1", "Income_Distribution_Ratio_lag1" >>
      [] c = "NEET_Rate" ->
           << "Year", "Unemployment_Rate_lag1", "Income_Distribution_Ratio_lag1" >>
      [] c = "Unemployment_Rate" ->
           << "Year", "NEET_Rate_lag1", "Income_Distribution_Ratio_lag1" >>
      [] c = "Income_Distribution_Ratio" ->
           << "Year", "NEET_Rate_lag1", "Income_Share_Bottom_40_lag1" >>
      [] c = "Income_Share_Bottom_40" ->
           << "Year", "NEET_Rate_lag1", "Income_Distribution_Ratio_lag1" >>
      [] c = "Renewable_Energy_Share" ->
           << "Year", "Real_GDP_Per_Capita_lag1" >>
      [] OTHER ->
           << "Year" >>

\* coef_[1] * rec[names[1]] + ... + coef_[k] * rec[names[k]]
RECURSIVE WeightedSum(_, _, _, _)
WeightedSum(coef_, rec, names, k) ==
    IF k = 0 THEN 0
    ELSE WeightedSum(coef_, rec, names, k - 1) + coef_[k] * rec[names[k]]

\* C18: the feature list stored with each model is Year followed by the
\* indicator's configured lag-1 columns (Year alone for GHG_Emissions), and
\* every prediction weighs the record's fields in exactly that order: the
\* k-th coefficient meets the k-th stored feature.
C18_StoredFeatures ==
    /\ \A c \in Indicators : models[c]["features"] = StoredFeatures(c)
    /\ \A i \in 2..Len(forecast_df), c \in Indicators :
          LET m == models[c]["model"]
              raw == m["intercept_"]
                       + WeightedSum(m["coef_"], forecast_df[i],
                                     StoredFeatures(c), Len(m["coef_"]))
          IN forecast_df[i][c] = ApplyFloor(c, raw)

\* C18's case: a model whose Year weight differs from its lag weights, so
\* that the order of the columns shows in the prediction, has produced a
\* value above the floor.
C18_Witness ==
    /\ Len(forecast_df) >= 2
    /\ LET m == models["NEET_Rate"]["model"]
       IN /\ m["coef_"][1] # m["coef_"][2]
          /\ forecast_df[2]["Unemployment_Rate_lag1"] # 0
          /\ forecast_df[2]["NEET_Rate"] > 0

\* The number of parameters of the model of col: one coefficient for each
\* feature and the intercept
NParams(col) == Len(feature_cols(col)) + 1

FitAttempted ==
    /\ script = "forecast_to_2030"
    /\ pc = "anchor" \/ raised["at"] = "fit"

\* C11: when an indicator of a country has fewer training rows than its model
\* has parameters, no model is produced for the pair and the script does not
\* crash: it goes on with the other indicators and countries.
C11_InsufficientData ==
    FitAttempted
    => \A col \in Indicators :
          Len(y_train(col, df_country, train_data)) < NParams(col)
          => /\ col \notin DOMAIN models
             /\ raised = NoError

\* C12: when the input file is missing a script creates no directory and no
\* file, and it terminates with a non-zero exit status after a message that
\* names the file.
C12_MissingInput ==
    (script \in Scripts /\ ~file.exists)
    => /\ created = {}
       /\ pc \in {"start", "load", "exited"}
       /\ pc = "exited"
          => /\ exit_status > 0
             /\ \E k \in 1..Len(stdout) :
                   stdout[k] \in { "Error: File not found at " \o file_path,
                                   "Error: File not found at "
                                      \o "data/Final_cleaned_database.csv" }

\* The rows of a country, in the order of the file
OwnRows(table, country) ==
    SelectSeq(table, LAMBDA r : r["Country"] = country)

\* The years of the rows that hold a value for col
ObservedYears(rows, col) ==
    { rows[i]["Year"] : i \in { j \in 1..Len(rows) : rows[j][col] # NaN } }

\* C15: the last observed value a script uses for a country and an indicator
\* is the value of the country's latest year that holds one, whatever the
\* order of the rows and whatever years the country has.
C15_LastObserved ==
    \A k \in 1..Len(processed) : \A col \in Indicators :
        LET rows == OwnRows(file.rows, processed[k]["Country"])
            used == IF script = "forecast_to_2030"
                    THEN processed[k]["last_known_data"][col]
                    ELSE processed[k]["Latest"][col]
        IN ObservedYears(rows, col) # {}
           => \E i \in 1..Len(rows) :
                 /\ rows[i][col] = used
                 /\ \A y \in ObservedYears(rows, col) : y <= rows[i]["Year"]

\* The rows of a frame that hold a value for col and for each feature of
\* its model
UsableRows(frame, col) ==
    SelectSeq(frame, LAMBDA r :
        /\ r[col] # NaN
        /\ \A k \in 1..Len(feature_cols(col)) : r[feature_cols(col)[k]] # NaN)

\* C17: the sample each indicator's model is fit on is exactly the
\* country's rows that hold the target and the model's own features: no row
\* is left out for a value missing elsewhere and no row with a missing
\* target or feature is handed to the fit.
C17_TrainingRows ==
    (script = "forecast_to_2030" /\ (pc = "fit" \/ FitAttempted))
    => \A col \in Indicators :
          /\ X_train(col, df_country, train_data)
               = Columns(UsableRows(df_country, col), feature_cols(col))
          /\ y_train(col, df_country, train_data)
               = Column(UsableRows(df_country, col), col)

\* The models of a country, fit on the country's rows alone
OwnModels(country) ==
    LET frame == shift_1(OwnRows(file.rows, country))
    IN FittedModels(Len(numeric_cols), frame, dropna(frame))

\* What the loop keeps of a country, computed from the country's rows alone
OwnResult(country) ==
    LET own == OwnRows(file.rows, country)
        frame == shift_1(own)
    IN IF script = "forecast_to_2030"
       THEN [ Country |-> country,
              models |-> OwnModels(country),
              last_known_data |->
                  SelectSeq(frame, LAMBDA r : r["Year"] = AnchorYear)[1] ]
       ELSE country_result(country, own)

C20_TableUnchanged ==
    (script \in {"forecast_to_2030", "projections"} /\ file.exists
       /\ pc \notin {"start", "load"})
    => /\ df = file.rows
       /\ \A i \in 1..Len(df) : DOMAIN df[i] = {"Country", "Year"} \cup Indicators

\* C20's case: the second country's frame has got its lag columns and the
\* table is the one that was read.
C20_Witness ==
    /\ script = "forecast_to_2030"
    /\ pc = "fit"
    /\ country_pos = 2
    /\ Len(df_country) >= 2
    /\ df_country[2]["NEET_Rate_lag1"] = df_country[1]["NEET_Rate"]
    /\ df = file.rows

\* In a lag-augmented frame: the first row of each country has no lag
\* value, every other row holds the values of its country's row of the year
\* before
LagIsPreviousYear(frame) ==
    \A i \in 1..Len(frame) : \A c \in Indicators :
        LET own == { j \in 1..Len(frame) : frame[j]["Country"] = frame[i]["Country"] }
            before == { j \in own : frame[j]["Year"] = frame[i]["Year"] - 1 }
        IN IF \A j \in own : i <= j
           THEN frame[i][Lag1(c)] = NaN
           ELSE /\ before # {}
                /\ \A j \in before : frame[i][Lag1(c)] = frame[j][c]

\* C21: in the lag-augmented table, each '<indicator>_lag1' value is the
\* indicator's value of the same country in the year before (Year - 1), not
\* a value of another country or year, and the first row of each country has
\* all its lag columns missing.
C21_LagIsPreviousYear ==
    (script = "forecast_to_2030" /\ pc = "fit")
    => /\ LagIsPreviousYear(df_country)
       /\ LagIsPreviousYear(group_shift_1(df))

\* C22: the statuses the scorer averages rest on the forecast pipeline's
\* results: the model behind each 2030 value of a row of df_proj is the model
\* the pipeline fits for that country and indicator, and no other model.
C22_ScorerUsesPipeline ==
    script = "projections"
    => \A k \in 1..Len(processed) : \A col \in Indicators :
          processed[k]["Model"][col]
             = OwnModels(processed[k]["Country"])[col]["model"]

C26_GhgStatus ==
    (pc = "projected" /\ cand.col = "GHG_Emissions")
    => LET f == cand.forecast_value
           l == cand.last_value
           v == proj_status.val_2005
           below == Numeric(f) /\ Numeric(l) /\ f < l
       IN /\ (proj_status.has_2005 /\ Numeric(v))
             => proj_status.status =
                   IF Numeric(f) /\ 10 * f <= 6 * v THEN "Green"
                   ELSE IF below THEN "Orange" ELSE "Red"
          /\ ~proj_status.has_2005
             => proj_status.status = IF below THEN "Orange" ELSE "Red"

\* C26's case: a 2030 value of exactly 60% of the 2005 value (3.0 of 5.0),
\* above the latest value, is Green; the same values without a 2005 row
\* give Red.
C26_Witness ==
    /\ pc = "projected"
    /\ cand.col = "GHG_Emissions"
    /\ cand.forecast_value = 6
    /\ cand.last_value = 4
    /\ \/ proj_status = [status |-> "Green", has_2005 |-> TRUE, val_2005 |-> 10]
       \/ proj_status = [status |-> "Red", has_2005 |-> FALSE, val_2005 |-> NaN]

\* C27: every status the forecast pipeline emits is Green, Orange or Red:
\* for each indicator and every pair of last observed and forecast value,
\* missing values included, the default 'Error' is overwritten.
C27_NoErrorStatus ==
    pc \in {"classified", "mapped", "projected"}
    => status \in {"Green", "Orange", "Red"}

\* C27's case: a GDP whose last observed value is missing, so that the
\* growth is not a number, is classified Red.
C27_Witness ==
    /\ pc = "classified"
    /\ cand.col = "Real_GDP_Per_Capita"
    /\ cand.last_value = NaN
    /\ Numeric(cand.forecast_value)
    /\ status = "Red"

\* C28: for every indicator, 2022 value and 2030 forecast the dashboard's
\* category is the pipeline's status: 0 for Green, 1 for Orange, 2 for Red.
C28_DashboardMatchesPipeline ==
    (pc = "mapped" /\ cand.has_2022)
    => category = << CASE status = "Green" -> 0
                       [] status = "Orange" -> 1
                       [] OTHER -> 2 >>

\* C29: get_status of projections.py and the forecast pipeline's classifier
\* give the same status to the same indicator, last observed value and 2030
\* forecast.
C29_SameRules ==
    pc = "projected" => proj_status.status = status

\* C24: after any sequence of SDG selections, indicator selections and map
\* clicks, once toggle_graph_view has run on them, the graph column is
\* displayed and the map column has width 7 exactly when an indicator is
\* selected and a map click has occurred; otherwise the graph column is
\* hidden and the map column has width 12.
C24_GraphView ==
    (pc = "serving" /\ "toggle_graph_view" \notin pending)
    => IF indicator_value # None /\ clickData # None
       THEN graph_style = "block" /\ map_width = 7
       ELSE graph_style = "none" /\ map_width = 12

\* C24's case: a country was clicked and the indicator was then cleared;
\* the graph column is hidden again.
C24_Witness ==
    /\ pending = {}
    /\ clickData # None
    /\ indicator_value = None
    /\ graph_style = "none"
    /\ map_width = 12

\* The user has chosen country c, by map click or in the country dropdown,
\* and update_graphs has not yet run on the choice
CountryChosen(c) ==
    /\ "update_graphs" \in pending
    /\ triggered # {}
    /\ "map-indicator-dropdown" \notin triggered
    /\ IF "europe-map" \in triggered THEN clickData = c ELSE country_value = c

TrendGraph(c, i) == [kind |-> "trend", country |-> c, indicator |-> i]

\* C25, as claimed: once an indicator is selected, choosing a country by map
\* click or in the country dropdown leads to the graph column being displayed
\* with the trend graph of that country and indicator.
C25_LeadsToTrend ==
    \A c \in Countries : \A i \in Indicators :
        (CountryChosen(c) /\ indicator_value = i)
        ~> (graph_style = "block" /\ graph_figure = TrendGraph(c, i))

\* C25, amended: once an indicator is selected, choosing a country by map
\* click or in the country dropdown leads to the graph column being displayed
\* with the trend graph of that country and indicator when the table has
\* rows for them, and with the 'No data available' figure of that country
\* and indicator when it has none.
C25_LeadsToGraph ==
    \A c \in Countries : \A i \in Indicators :
        (CountryChosen(c) /\ indicator_value = i)
        ~> /\ graph_style = "block"
           /\ graph_figure =
                 IF << c, i >> \in graph_data
                 THEN TrendGraph(c, i)
                 ELSE [kind |-> "no_data", country |-> c, indicator |-> i]

\* C25's case: after a map click, another country was chosen in the country
\* dropdown and its trend graph is displayed.
C25_Witness ==
    /\ pending = {}
    /\ indicator_value # None
    /\ country_value # None
    /\ country_value # clickData
    /\ graph_style = "block"
    /\ graph_figure = TrendGraph(country_value, indicator_value)

============================================================================
